---- MODULE Spec2Model ----
(***************************************************************************)
(* chatgpt-offboard (src/offboard.py): the incremental conversation export *)
(* pipeline.  main() aggregates the conversation listings into a worklist, *)
(* splits it by origin (regular / custom GPT / project folder) and hands   *)
(* every part to save_conversations, which skips the files that exist and  *)
(* fetches, composes and writes the others.  The output directory is the   *)
(* only state that survives a run; several runs are modelled in sequence.  *)
(*                                                                         *)
(* Strings are sequences of one-character strings, so that safe_filename   *)
(* and the file-name format are computed as the code computes them.        *)
(***************************************************************************)
EXTENDS Integers, Sequences, FiniteSets, TLC

\* ---------------------------------------------------------------- bounds
\* number of runs of main() against the same output directory
MaxRuns == 2
\* longest primary listing of a run
MaxList == 2
\* longest archived listing, conversation-history cache and folder listing of a run
MaxOther == 1
\* longest folder cache (snorlax-history items) of a run
MaxFolders == 1
\* longest listing of any source when only the aggregation is explored
MaxAgg == 2
\* most nodes in a conversation's mapping
MaxNodes == 3
\* most parts in a message's content
MaxParts == 2
\* most page requests one listing is followed for
MaxPages == 2
\* the longest of the short titles a file is named after
MaxTitle == 3
\* the most messages of a conversation a document is composed of
MaxDocMsgs == 2

\* ------------------------------------------------------------- constants
\* safe_filename keeps slug[:80]
SlugMax == 80
\* get_all_conversations_from_api asks for pages of 100
ApiLimit == 100
\* get_project_conversations asks for pages of 50, the most the endpoint gives
FolderLimit == 50

\* ---------------------------------------------------------------- strings
None == << >>
Untitled == <<"U","n","t","i","t","l","e","d">>
untitled == <<"u","n","t","i","t","l","e","d">>
ArchivedSuffix == <<"_","a","r","c","h","i","v","e","d">>
MdExt == <<".","m","d">>
ProjectPrefix == <<"g","-","p","-">>

\* the characters re.sub removes in safe_filename
IllegalChars == {"<", ">", ":", "\"", "/", "\\", "|", "?", "*", "\n", "\r"}
\* what str.strip() removes at both ends
Whitespace == {" ", "\t", "\n", "\r", "\f"}

Min(a, b) == IF a < b THEN a ELSE b

startswith(s, p) ==
    /\ Len(s) >= Len(p)
    /\ SubSeq(s, 1, Len(p)) = p

RECURSIVE lstrip(_)
lstrip(s) ==
    IF s # << >> /\ Head(s) \in Whitespace THEN lstrip(Tail(s)) ELSE s

RECURSIVE rstrip(_)
rstrip(s) ==
    IF s # << >> /\ s[Len(s)] \in Whitespace
    THEN rstrip(SubSeq(s, 1, Len(s) - 1))
    ELSE s

strip(s) == rstrip(lstrip(s))

\* a plausible slip: the slug is not cut to its first 80 characters
safe_filename_NoCut(title) ==
    LET removed  == SelectSeq(title, LAMBDA ch : ch \notin IllegalChars)
        stripped == strip(removed)
        slug     == [i \in DOMAIN stripped |->
                        IF stripped[i] = " " THEN "_" ELSE stripped[i]]
    IN  IF slug = << >> THEN untitled ELSE slug

\* safe_filename(title): strip the illegal characters, strip(), spaces to
\* underscores, the first 80 characters, "untitled" when nothing is left
safe_filename(title) ==
    LET removed  == SelectSeq(title, LAMBDA ch : ch \notin IllegalChars)
        stripped == strip(removed)
        slug     == [i \in DOMAIN stripped |->
                        IF stripped[i] = " " THEN "_" ELSE stripped[i]]
        cut      == SubSeq(slug, 1, Min(SlugMax, Len(slug)))
    IN  IF cut = << >> THEN untitled ELSE cut

\* ------------------------------------------------------------------ dates
VARIABLE utcoffset    \* the UTC offset of the host's time zone, in hours

\* A create_time is a number (epoch) or a string (ISO-8601).  It is kept as
\* [str, day, hour]: whether it is a string, and the day and the hour of the
\* instant it denotes, in UTC; a string that datetime.fromisoformat rejects
\* has day = -1.
NumTime(d) == [str |-> FALSE, day |-> d, hour |-> 0]
IsoTime(d) == [str |-> TRUE, day |-> d, hour |-> 0]
\* an instant in the last hour of day d
IsoLate(d) == [str |-> TRUE, day |-> d, hour |-> 23]
BadIso == [str |-> TRUE, day |-> -1, hour |-> 0]

\* parse_date raises exactly when fromisoformat rejects the string
parse_date_raises(created) == created.str /\ created.day < 0

\* the UTC offsets, in hours, of the time zones a host can be set to
UtcOffsets == {0, 1}

\* the day the instant falls on in local time: astimezone() and
\* fromtimestamp() both convert to the time zone of the host
LocalDay(created, off) == (created.day * 24 + created.hour + off) \div 24

\* the day parse_date(created) falls on (defined when it does not raise)
parse_date(created) == LocalDay(created, utcoffset)

Digit(n) == <<"0","1","2","3","4","5","6","7","8","9">>[n + 1]

\* strftime("%Y-%m-%d") of day d after 1970-01-01, for d in 0..8
date_prefix(d) == <<"1","9","7","0","-","0","1","-","0", Digit(d + 1)>>

\* ------------------------------------------------------------------ paths
ExportsDir == <<"exports">>
GptsDir(name) == <<"exports", "gpts", safe_filename(name)>>
ProjectsDir(name) == <<"exports", "projects", safe_filename(name)>>

Get(c, key, dflt) == IF key \in DOMAIN c THEN c[key] ELSE dflt

\* out_dir / f"{date_prefix}_{safe_filename(title)}{archive_suffix}.md"
FilePath(out, convo) ==
    [dir  |-> out,
     file |-> date_prefix(parse_date(convo.created)) \o <<"_">>
                \o safe_filename(convo.title)
                \o (IF Get(convo, "archived", FALSE) THEN ArchivedSuffix ELSE << >>)
                \o MdExt]

\* ----------------------------------------------------- the remote service
GPT1 == <<"g","-","1">>
PROJ1 == <<"g","-","p","-","1">>
\* a create_time that is missing (None) or empty: `or 0` replaces it
NoTime == [str |-> TRUE, day |-> -2, hour |-> 0]

\* the items /backend-api/conversations and the conversation-history cache
\* can hold: a and b get the same slug, c has a create_time that does not
\* parse, d has no title and belongs to a custom GPT, e lives in a project
ApiItems ==
    { [id |-> "a", title |-> <<"x">>, create_time |-> NumTime(0), gizmo_id |-> None],
      [id |-> "b", title |-> <<"x","?">>, create_time |-> IsoTime(0), gizmo_id |-> None],
      [id |-> "c", title |-> <<"y">>, create_time |-> BadIso, gizmo_id |-> None],
      [id |-> "d", title |-> None, create_time |-> NoTime, gizmo_id |-> GPT1],
      [id |-> "e", title |-> <<"z">>, create_time |-> NumTime(1), gizmo_id |-> PROJ1] }

\* the items /backend-api/gizmos/{project_id}/conversations can hold
ProjectItems ==
    { [id |-> "e", title |-> <<"z">>, create_time |-> NumTime(1)],
      [id |-> "f", title |-> <<" ","x"," ">>, create_time |-> NumTime(0)] }

\* the gizmos the snorlax-history cache can hold: [id, name]
FolderItems ==
    { [id |-> PROJ1, name |-> <<"p">>],
      [id |-> PROJ1, name |-> None],
      [id |-> GPT1, name |-> <<"n">>] }

Ids == {"a", "b", "c", "d", "e", "f"}

\* what /backend-api/gizmos/{id} answers: an error, no display name, a name
LookupAnswers == {"error", "noname", "named"}
GizmoName == <<"n">>

SeqsUpTo(S, n) == UNION {[1..k -> S] : k \in 0..n}

Listings(n) == SeqsUpTo(ApiItems, n)
ProjectListings(n) == SeqsUpTo(ProjectItems, n)
FolderCaches(n) == SeqsUpTo(FolderItems, n)

\* ------------------------------------------------------ listing the sources
\* the dict built from one listing item (lines 117-122, 96-101)
Convo(item) ==
    [id       |-> item.id,
     title    |-> IF item.title = None THEN Untitled ELSE item.title,
     created  |-> IF item.create_time = NoTime THEN NumTime(0) ELSE item.create_time,
     gizmo_id |-> item.gizmo_id]

\* the dict built from one folder listing item (lines 195-199)
ProjectConvo(item) ==
    [id      |-> item.id,
     title   |-> IF item.title = None THEN Untitled ELSE item.title,
     created |-> IF item.create_time = NoTime THEN NumTime(0) ELSE item.create_time]

\* get_all_conversations_from_api, given the items its pages return in order:
\* every item of every page is appended, none is dropped or deduplicated
get_all_conversations_from_api(items) ==
    [i \in DOMAIN items |-> Convo(items[i])]

\* read_convos_from_localstorage, given the items of the cached pages
read_convos_from_localstorage(items) ==
    [i \in DOMAIN items |-> Convo(items[i])]

\* the conversations get_project_conversations returns
get_project_conversations(items) ==
    [i \in DOMAIN items |-> ProjectConvo(items[i])]

\* get_projects_from_localstorage: the g-p- gizmos, each id once, in order
RECURSIVE ProjectsFrom(_, _)
ProjectsFrom(items, seen) ==
    IF items = << >> THEN << >>
    ELSE LET gid == Head(items).id
         IN  IF startswith(gid, ProjectPrefix) /\ gid \notin seen
             THEN <<[id |-> gid, name |-> Head(items).name]>>
                    \o ProjectsFrom(Tail(items), seen \cup {gid})
             ELSE ProjectsFrom(Tail(items), seen)

get_projects_from_localstorage(items) == ProjectsFrom(items, {})

IdsOf(cs) == {cs[i].id : i \in DOMAIN cs}

\* main, lines 335-340: existing_ids is taken once, from convos as it is
\* before the loop; every archived item whose id is not in it is marked
\* archived and appended
RECURSIVE AppendArchived(_, _, _)
AppendArchived(cs, arch, existing_ids) ==
    IF arch = << >> THEN cs
    ELSE LET c == Head(arch)
         IN  IF c.id \notin existing_ids
             THEN AppendArchived(
                      Append(cs, [id |-> c.id, title |-> c.title,
                                  created |-> c.created, gizmo_id |-> c.gizmo_id,
                                  archived |-> TRUE]),
                      Tail(arch), existing_ids)
             ELSE AppendArchived(cs, Tail(arch), existing_ids)

\* a plausible slip: the membership test is left out
MergeArchived_NoTest(cs, arch) == AppendArchived(cs, arch, {})

MergeArchived(cs, arch) == AppendArchived(cs, arch, IdsOf(cs))

\* a plausible slip: no name is used when the lookup gives none
NameOrId_NoFallback(gid, answer) == IF answer = "named" THEN GizmoName ELSE None

\* get_gpt_names: the display name, or the id when there is none or on error
NameOrId(gid, answer) == IF answer = "named" THEN GizmoName ELSE gid

\* -------------------------------------------------------------- documents
\* what /backend-api/conversation/{cid} returns: the conversation's data,
\* which to_markdown can render (ok) or raises on (malformed)
ConvData(cid) == {[id |-> cid, ok |-> TRUE], [id |-> cid, ok |-> FALSE]}
NoData == [id |-> "", ok |-> FALSE]

\* the text to_markdown composes: the heading, the date line with the
\* archived marker, and the thread of the conversation the data belongs to
to_markdown(data, title, created, is_archived) ==
    [title |-> title, day |-> parse_date(created), archived |-> is_archived,
     thread |-> data.id]
NoDoc == [title |-> << >>, day |-> 0, archived |-> FALSE, thread |-> ""]

\* a file: complete once write_text has written the text and closed it
Written(doc) == [complete |-> TRUE, doc |-> doc]
Opened == [complete |-> FALSE, doc |-> NoDoc]
NoPath == [dir |-> << >>, file |-> << >>]

\* ---------------------------------------------------------- message graphs
\* the node ids of a conversation's mapping; NoNode is None (no parent, no
\* current_node)
NodeIds == <<"n1", "n2", "n3", "n4">>
NoNode == ""
Nodes(n) == {NodeIds[i] : i \in 1..n}

\* what node.get("message") can be: None, a message whose content is missing
\* or empty, a message with content
NoMsg == [of |-> "", content |-> "none"]
Msg(n, c) == [of |-> n, content |-> c]
MessageKinds == {"none", "empty", "parts"}

\* mapping.get(node_id, {}) for an id the mapping does not hold
EmptyNode == [message |-> NoMsg, parent |-> NoNode]

\* what a node of a mapping over the first n node ids can be: any message,
\* and no parent or any of the ids as its parent
NodeShapes(n) == [kind : MessageKinds, parent : Nodes(n) \cup {NoNode}]

\* the mapping whose nodes have the shapes g gives them
MappingOf(g) ==
    [x \in DOMAIN g |->
        [message |-> IF g[x].kind = "none" THEN NoMsg ELSE Msg(x, g[x].kind),
         parent  |-> g[x].parent]]

Reverse(q) == [i \in DOMAIN q |-> q[Len(q) + 1 - i]]

\* --------------------------------------------------------------- rendering
\* msg.get("author", {}).get("role", "unknown")
Roles == {"user", "assistant", "system", "tool", "unknown"}

\* a part of content.parts: a string, a dict with a content_type, or
\* anything else (a number, None)
TextPart(t) == [type |-> "str", text |-> t, content_type |-> "", title |-> << >>,
                url |-> << >>]
DictPart(ctype, title, url) ==
    [type |-> "dict", text |-> << >>, content_type |-> ctype, title |-> title,
     url |-> url]
OtherPart == [type |-> "other", text |-> << >>, content_type |-> "", title |-> << >>,
              url |-> << >>]

Parts ==
    { TextPart(<<"a">>), TextPart(<<" ", "b", " ">>), TextPart(<<" ", "\n">>),
      DictPart("image_asset_pointer", << >>, << >>),
      DictPart("tether_quote", <<"t">>, <<"u">>),
      DictPart("audio_transcription", << >>, << >>),
      OtherPart }

Messages(n) == [role : Roles, parts : SeqsUpTo(Parts, n)]
NoMessage == [role |-> "unknown", parts |-> << >>]

YouLabel == <<"*", "*", "Y", "o", "u", ":", "*", "*">>
ChatGPTLabel == <<"*", "*", "C", "h", "a", "t", "G", "P", "T", ":", "*", "*">>
ImageText == <<"*", "[", "i", "m", "a", "g", "e", "]", "*">>
SourceText(title, url) ==
    <<"*", "[", "s", "o", "u", "r", "c", "e", ":", " ", "[">> \o title
        \o <<"]", "(">> \o url \o <<")", "]", "*">>
Blank == <<"\n", "\n">>

\* "\n\n".join(q)
RECURSIVE join(_)
join(q) ==
    IF q = << >> THEN << >>
    ELSE IF Len(q) = 1 THEN q[1]
    ELSE q[1] \o Blank \o join(Tail(q))

\* lines 265-275: the texts the loop over parts appends to text_parts
RECURSIVE text_parts(_)
text_parts(parts) ==
    IF parts = << >> THEN << >>
    ELSE LET part == Head(parts)
             here == IF part.type = "str"
                     THEN IF strip(part.text) # << >> THEN <<strip(part.text)>>
                          ELSE << >>
                     ELSE IF part.type = "dict"
                     THEN IF part.content_type = "image_asset_pointer"
                          THEN <<ImageText>>
                          ELSE IF part.content_type = "tether_quote"
                          THEN <<SourceText(part.title, part.url)>>
                          ELSE << >>
                     ELSE << >>
         IN  here \o text_parts(Tail(parts))

\* a plausible slip: the roles system and tool are not filtered out
render_message_NoFilter(m) ==
    IF text_parts(m.parts) = << >> THEN None
    ELSE (IF m.role = "user" THEN YouLabel ELSE ChatGPTLabel)
            \o Blank \o join(text_parts(m.parts))

\* render_message: None for system and tool and when no part gives text,
\* else the label, a blank line and the texts joined by blank lines
render_message(m) ==
    IF m.role \in {"system", "tool"} THEN None
    ELSE IF text_parts(m.parts) = << >> THEN None
    ELSE (IF m.role = "user" THEN YouLabel ELSE ChatGPTLabel)
            \o Blank \o join(text_parts(m.parts))

\* ------------------------------------------------------------------ state
VARIABLES
    files,            \* the output directory: path -> file
    run,              \* which run of main() this is
    pc,               \* where the run is
    token,            \* main: token ("none" before get_token, "null" if absent)
    convos,           \* main: convos
    primary,          \* what the first get_all_conversations_from_api returned
    cache,            \* what read_convos_from_localstorage returned
    archived,         \* main: archived
    regular_convos,   \* main: regular_convos
    gpt_convos,       \* main: gpt_convos
    gpt_names,        \* main: gpt_names
    gpt_todo,         \* main: the gids of gpt_ids the loop has yet to visit
    projects,         \* main: the projects the loop has yet to visit
    total_saved, total_skipped, total_errors,
    ret,              \* save_conversations: where main continues on return
    work,             \* save_conversations: the convos yet to visit
    out_dir,          \* save_conversations: out_dir
    category,         \* "regular", "gpts" or "projects": which call this is
    origin,           \* the gid or pid the call exports (None for regular)
    saved, skipped, errors,
    filepath,         \* save_conversations: filepath
    conv_data,        \* save_conversations: conv_data
    md,               \* save_conversations: md
    nList,            \* listing calls made in this run
    wrote,            \* whether write_text was called in this run
    fetched,          \* id -> detail fetches made in this run
    visited,          \* the [path, id] this call of save_conversations has computed
    ev,               \* what the last step did, and to which conversation
    mapping,          \* extract_messages: mapping, node id -> [message, parent]
    current_node,     \* extract_messages: current_node
    node_id,          \* extract_messages: node_id
    path,             \* extract_messages: path
    seen,             \* the node ids the loop of extract_messages has visited
    messages,         \* what extract_messages returned
    msg,              \* render_message: msg, as [role, parts]
    rendered,         \* what render_message returned
    offset,           \* the paginating functions: offset
    total,            \* the paginating functions: total
    page,             \* the paginating functions: items, the page just received
    page_convos,      \* the paginating functions: convos
    requests,         \* the offsets of the page requests made, in order
    doc_args,         \* to_markdown: [messages, title, created, archived]
    lines,            \* to_markdown: lines
    document          \* what to_markdown returned

mainVars == <<token, convos, primary, cache, archived, regular_convos, gpt_convos,
              gpt_names, gpt_todo, projects>>
totalVars == <<total_saved, total_skipped, total_errors>>
callVars == <<ret, work, out_dir, category, origin, saved, skipped, errors, visited>>
itemVars == <<filepath, conv_data, md>>
logVars == <<nList, wrote, fetched>>
\* the host
envVars == <<utcoffset>>
\* extract_messages
extractVars == <<mapping, current_node, node_id, path, seen, messages>>
\* the locals of the functions that are explored on their own
\* render_message
renderVars == <<msg, rendered>>
\* get_all_conversations_from_api and get_project_conversations
pageVars == <<offset, total, page, page_convos, requests>>
\* to_markdown
docVars == <<doc_args, lines, document>>
fnVars == <<extractVars, renderVars, pageVars, docVars>>
\* the state of main() and of what it calls, but for where it is
mainState == <<files, run, envVars, mainVars, totalVars, callVars, itemVars, logVars,
               ev>>
vars == <<files, run, envVars, fnVars, fnVars, pc, mainVars, totalVars, callVars, itemVars, logVars,
          ev>>

Ev(kind, id, at) == [kind |-> kind, id |-> id, path |-> at]

\* a step that looked display names up, and what the lookups answered
Looked(kind, answer) == [kind |-> kind, id |-> "", path |-> NoPath, answer |-> answer]

Running == pc \notin {"done", "aborted", "killed"}

\* the state of a process that has just started
Fresh ==
    /\ token = "none"
    /\ convos = << >> /\ primary = << >> /\ cache = << >> /\ archived = << >>
    /\ regular_convos = << >> /\ gpt_convos = << >>
    /\ gpt_names = << >> /\ gpt_todo = {} /\ projects = << >>
    /\ total_saved = 0 /\ total_skipped = 0 /\ total_errors = 0
    /\ ret = "" /\ work = << >> /\ out_dir = << >>
    /\ category = "" /\ origin = None
    /\ saved = 0 /\ skipped = 0 /\ errors = 0
    /\ filepath = NoPath /\ conv_data = NoData /\ md = NoDoc
    /\ nList = 0 /\ wrote = FALSE
    /\ fetched = [i \in Ids |-> 0]
    /\ visited = {}

\* no function is being explored on its own
ExtractIdle ==
    /\ mapping = << >> /\ current_node = NoNode /\ node_id = NoNode
    /\ path = << >> /\ seen = {} /\ messages = << >>

RenderIdle == msg = NoMessage /\ rendered = None

PagesIdle ==
    /\ offset = 0 /\ total = 0 /\ page = << >> /\ page_convos = << >>
    /\ requests = << >>

NoArgs == [messages |-> << >>, title |-> << >>, created |-> NumTime(0),
           archived |-> FALSE]

DocIdle == doc_args = NoArgs /\ lines = << >> /\ document = << >>

FnIdle == ExtractIdle /\ RenderIdle /\ PagesIdle /\ DocIdle

\* main() has not started: an empty output directory on a host set to UTC
MainFresh ==
    /\ files = << >> /\ run = 1
    /\ ev = Ev("start", "", NoPath)
    /\ Fresh

MainIdle == MainFresh /\ utcoffset = 0

Init ==
    /\ files = << >>
    /\ run = 1
    /\ utcoffset = 0
    /\ FnIdle
    /\ pc = "get_token"
    /\ ev = Ev("start", "", NoPath)
    /\ Fresh

\* the locals no later line of main reads are dropped
DropListings ==
    /\ convos' = << >> /\ primary' = << >> /\ cache' = << >> /\ archived' = << >>

ResetCall ==
    /\ ret' = "" /\ work' = << >> /\ out_dir' = << >>
    /\ category' = "" /\ origin' = None
    /\ saved' = 0 /\ skipped' = 0 /\ errors' = 0
    /\ visited' = {}

ResetItem ==
    /\ filepath' = NoPath /\ conv_data' = NoData /\ md' = NoDoc

\* -------------------------------------------------------------------- main
\* a plausible slip: the missing token is not raised on
GetToken_NoRaise(tok) ==
    /\ pc = "get_token"
    /\ token' = tok
    /\ pc' = "list_primary"
    /\ ev' = Ev("token", "", NoPath)
    /\ UNCHANGED <<files, run, envVars, fnVars, convos, primary, cache, archived, regular_convos,
                   gpt_convos, gpt_names, gpt_todo, projects, totalVars,
                   callVars, itemVars, logVars>>

\* get_token (lines 31-42) as main calls it (line 323): the RuntimeError it
\* raises without a token is caught nowhere and ends the run
GetToken(tok) ==
    /\ pc = "get_token"
    /\ token' = tok
    /\ pc' = IF tok = "null" THEN "aborted" ELSE "list_primary"
    /\ ev' = Ev(IF tok = "null" THEN "no_token" ELSE "token", "", NoPath)
    /\ UNCHANGED <<files, run, envVars, fnVars, convos, primary, cache, archived, regular_convos,
                   gpt_convos, gpt_names, gpt_todo, projects, totalVars,
                   callVars, itemVars, logVars>>

\* a plausible slip: the archived listing is left for later
ListPrimary_NoArchived(items) ==
    /\ pc = "list_primary"
    /\ convos' = get_all_conversations_from_api(items)
    /\ primary' = convos'
    /\ nList' = nList + 1
    /\ pc' = IF convos' = << >> THEN "fallback" ELSE "merged"
    /\ ev' = Ev("listed", "", NoPath)
    /\ UNCHANGED <<files, run, envVars, fnVars, token, cache, archived,
                   regular_convos, gpt_convos, gpt_names, gpt_todo, projects,
                   totalVars, callVars, itemVars, wrote, fetched>>

\* main, line 328: the primary listing
ListPrimary(items) ==
    /\ pc = "list_primary"
    /\ convos' = get_all_conversations_from_api(items)
    /\ primary' = convos'
    /\ nList' = nList + 1
    /\ pc' = IF convos' = << >> THEN "fallback" ELSE "list_archived"
    /\ ev' = Ev("listed", "", NoPath)
    /\ UNCHANGED <<files, run, envVars, fnVars, token, cache, archived, regular_convos, gpt_convos,
                   gpt_names, gpt_todo, projects, totalVars, callVars, itemVars,
                   wrote, fetched>>

\* fetch_json raises in a listing of main (lines 328, 334): nothing catches it
ListError ==
    /\ pc \in {"list_primary", "list_archived"}
    /\ nList' = nList + 1
    /\ pc' = "aborted"
    /\ ev' = Ev("list_error", "", NoPath)
    /\ UNCHANGED <<files, run, envVars, fnVars, mainVars, totalVars, callVars, itemVars,
                   wrote, fetched>>

\* a plausible slip: the cache is read but the result is not used
Fallback_Unused(items) ==
    /\ pc = "fallback"
    /\ cache' = read_convos_from_localstorage(items)
    /\ convos' = << >>
    /\ pc' = "list_archived"
    /\ ev' = Ev("fallback", "", NoPath)
    /\ UNCHANGED <<files, run, envVars, fnVars, token, primary, archived, regular_convos, gpt_convos,
                   gpt_names, gpt_todo, projects, totalVars, callVars, itemVars,
                   logVars>>

\* main, lines 329-331: the primary listing was empty, the cache replaces it
Fallback(items) ==
    /\ pc = "fallback"
    /\ cache' = read_convos_from_localstorage(items)
    /\ convos' = cache'
    /\ pc' = "list_archived"
    /\ ev' = Ev("fallback", "", NoPath)
    /\ UNCHANGED <<files, run, envVars, fnVars, token, primary, archived, regular_convos, gpt_convos,
                   gpt_names, gpt_todo, projects, totalVars, callVars, itemVars,
                   logVars>>

\* main, lines 334-341: the archived listing and its merge into convos
ListArchived(items) ==
    /\ pc = "list_archived"
    /\ archived' = get_all_conversations_from_api(items)
    /\ convos' = IF archived' # << >> THEN MergeArchived(convos, archived')
                 ELSE convos
    /\ nList' = nList + 1
    /\ pc' = "merged"
    /\ ev' = Ev("listed", "", NoPath)
    /\ UNCHANGED <<files, run, envVars, fnVars, token, primary, cache, regular_convos, gpt_convos,
                   gpt_names, gpt_todo, projects, totalVars, callVars, itemVars,
                   wrote, fetched>>

\* a plausible slip: main goes on when there is nothing
Partition_NoReturn ==
    /\ pc = "merged"
    /\ pc' = "export_regular"
    /\ regular_convos' = SelectSeq(convos, LAMBDA c : c.gizmo_id = None)
    /\ gpt_convos' = SelectSeq(convos, LAMBDA c : c.gizmo_id # None)
    /\ DropListings
    /\ ev' = Ev("partition", "", NoPath)
    /\ UNCHANGED <<files, run, envVars, fnVars, token, gpt_names, gpt_todo, projects, totalVars,
                   callVars, itemVars, logVars>>

\* main, lines 343-351: return when there is nothing, else split by gizmo_id
Partition ==
    /\ pc = "merged"
    /\ IF convos = << >>
       THEN /\ pc' = "done"
            /\ UNCHANGED <<regular_convos, gpt_convos>>
       ELSE /\ pc' = "export_regular"
            /\ regular_convos' = SelectSeq(convos, LAMBDA c : c.gizmo_id = None)
            /\ gpt_convos' = SelectSeq(convos, LAMBDA c : c.gizmo_id # None)
    /\ DropListings
    /\ ev' = Ev("partition", "", NoPath)
    /\ UNCHANGED <<files, run, envVars, fnVars, token, gpt_names, gpt_todo, projects, totalVars,
                   callVars, itemVars, logVars>>

\* the call save_conversations(page, token, cs, dir, ...) and its line 213
Call(cs, dir, cat, org, back) ==
    /\ work' = cs /\ out_dir' = dir /\ category' = cat /\ origin' = org
    /\ ret' = back
    /\ saved' = 0 /\ skipped' = 0 /\ errors' = 0
    /\ visited' = {}
    /\ pc' = "save_check"

\* main, lines 355-358
ExportRegular ==
    /\ pc = "export_regular"
    /\ IF regular_convos # << >>
       THEN Call(regular_convos, ExportsDir, "regular", None, "gpt_names")
       ELSE /\ pc' = "gpt_names"
            /\ UNCHANGED callVars
    /\ regular_convos' = << >>
    /\ ev' = Ev("regular", "", NoPath)
    /\ UNCHANGED <<files, run, envVars, fnVars, token, convos, primary, cache, archived, gpt_convos,
                   gpt_names, gpt_todo, projects, totalVars, itemVars, logVars>>

\* main, lines 360-363, with get_gpt_names (lines 134-143)
GptNames ==
    /\ pc = "gpt_names"
    /\ IF gpt_convos = << >>
       THEN /\ pc' = "projects"
            /\ ev' = Ev("gpt_names", "", NoPath)
            /\ UNCHANGED <<gpt_names, gpt_todo>>
       ELSE LET gpt_ids == {gpt_convos[i].gizmo_id : i \in DOMAIN gpt_convos}
            IN  /\ \E answers \in [gpt_ids -> LookupAnswers] :
                       /\ gpt_names' = [g \in gpt_ids |-> NameOrId(g, answers[g])]
                       /\ ev' = Looked("gpt_names", answers)
                /\ gpt_todo' = gpt_ids
                /\ pc' = "gpt_loop"
    /\ UNCHANGED <<files, run, envVars, fnVars, token, convos, primary, cache, archived,
                   regular_convos, gpt_convos, projects, totalVars, callVars,
                   itemVars, logVars>>

\* main, lines 364-370: one GPT of gpt_ids (a list made from a set: any order)
GptLoop ==
    /\ pc = "gpt_loop"
    /\ IF gpt_todo = {}
       THEN /\ pc' = "projects"
            /\ gpt_convos' = << >> /\ gpt_names' = << >>
            /\ UNCHANGED <<gpt_todo, callVars>>
       ELSE \E gid \in gpt_todo :
                /\ Call(SelectSeq(gpt_convos, LAMBDA c : c.gizmo_id = gid),
                        GptsDir(gpt_names[gid]), "gpts", gid, "gpt_loop")
                /\ gpt_todo' = gpt_todo \ {gid}
                /\ UNCHANGED <<gpt_convos, gpt_names>>
    /\ ev' = Ev("gpt", "", NoPath)
    /\ UNCHANGED <<files, run, envVars, fnVars, token, convos, primary, cache, archived,
                   regular_convos, projects, totalVars, itemVars, logVars>>

\* main, lines 373-374: the project folders of the snorlax-history cache
Projects(items) ==
    /\ pc = "projects"
    /\ projects' = get_projects_from_localstorage(items)
    /\ pc' = "proj_loop"
    /\ ev' = Ev("projects", "", NoPath)
    /\ UNCHANGED <<files, run, envVars, fnVars, token, convos, primary, cache, archived,
                   regular_convos, gpt_convos, gpt_names, gpt_todo, totalVars,
                   callVars, itemVars, logVars>>

\* main, lines 376-388, with get_project_conversations (lines 173-207): the
\* name lookup fails silently, the listing follows, then the export
ProjNext(answer, items) ==
    /\ pc = "proj_loop"
    /\ projects # << >>
    /\ LET proj     == Head(projects)
           api_name == IF answer = "named" THEN GizmoName ELSE None
           name     == IF proj.name # None THEN proj.name
                       ELSE IF api_name # None THEN api_name ELSE proj.id
       IN  Call(get_project_conversations(items), ProjectsDir(name),
                "projects", proj.id, "proj_loop")
    /\ projects' = Tail(projects)
    /\ nList' = nList + 1
    /\ ev' = Looked("project", answer)
    /\ UNCHANGED <<files, run, envVars, fnVars, token, convos, primary, cache, archived,
                   regular_convos, gpt_convos, gpt_names, gpt_todo, totalVars,
                   itemVars, wrote, fetched>>

\* fetch_json raises in the folder listing (line 190): nothing catches it
ProjListError ==
    /\ pc = "proj_loop"
    /\ projects # << >>
    /\ nList' = nList + 1
    /\ pc' = "aborted"
    /\ ev' = Ev("list_error", "", NoPath)
    /\ UNCHANGED <<files, run, envVars, fnVars, mainVars, totalVars, callVars, itemVars,
                   wrote, fetched>>

\* main, lines 390-396: all projects done
Finish ==
    /\ pc = "proj_loop"
    /\ projects = << >>
    /\ pc' = "done"
    /\ ev' = Ev("done", "", NoPath)
    /\ UNCHANGED <<files, run, envVars, fnVars, mainVars, totalVars, callVars, itemVars, logVars>>

\* ------------------------------------------------------- save_conversations
\* the except branch (lines 235-237) and the move to the next convo
ItemError(kind) ==
    /\ errors' = errors + 1
    /\ work' = Tail(work)
    /\ pc' = "save_check"
    /\ ResetItem
    /\ ev' = Ev(kind, Head(work).id, filepath)
    /\ UNCHANGED <<ret, out_dir, category, origin, saved, skipped, visited>>

\* line 240 after the loop: the counters go back to main, which adds them up
SaveReturn ==
    /\ pc = "save_check"
    /\ work = << >>
    /\ total_saved' = total_saved + saved
    /\ total_skipped' = total_skipped + skipped
    /\ total_errors' = total_errors + errors
    /\ pc' = ret
    /\ ResetCall
    /\ ev' = Ev("return", "", NoPath)
    /\ UNCHANGED <<files, run, envVars, fnVars, mainVars, itemVars, logVars>>

\* a plausible slip: the existence test is left out
SaveCheck_NoExistsTest ==
    /\ pc = "save_check"
    /\ work # << >>
    /\ LET convo == Head(work)
       IN  IF parse_date_raises(convo.created)
           THEN /\ pc' = "aborted"
                /\ ev' = Ev("date_error", convo.id, NoPath)
                /\ UNCHANGED <<filepath, visited>>
           ELSE /\ filepath' = FilePath(out_dir, convo)
                /\ visited' = visited \cup {[path |-> filepath', id |-> convo.id]}
                /\ pc' = "save_fetch"
                /\ ev' = Ev("new", convo.id, filepath')
    /\ UNCHANGED <<files, run, envVars, fnVars, mainVars, totalVars, ret, work, out_dir, category,
                   origin, saved, skipped, errors, conv_data, md, logVars>>

\* a plausible slip: the `continue` after skipped += 1 is left out
SaveCheck_NoContinue ==
    /\ pc = "save_check"
    /\ work # << >>
    /\ LET convo == Head(work)
       IN  IF parse_date_raises(convo.created)
           THEN /\ pc' = "aborted"
                /\ ev' = Ev("date_error", convo.id, NoPath)
                /\ UNCHANGED <<filepath, skipped, visited>>
           ELSE /\ filepath' = FilePath(out_dir, convo)
                /\ visited' = visited \cup {[path |-> filepath', id |-> convo.id]}
                /\ pc' = "save_fetch"
                /\ skipped' = IF filepath' \in DOMAIN files THEN skipped + 1
                              ELSE skipped
                /\ ev' = Ev("new", convo.id, filepath')
    /\ UNCHANGED <<files, run, envVars, fnVars, mainVars, totalVars, ret, work, out_dir, category,
                   origin, saved, errors, conv_data, md, logVars>>

\* lines 214-226: the next convo; parse_date (line 220) is outside the try, so
\* what it raises leaves save_conversations and main; an existing path is
\* counted as skipped
SaveCheck ==
    /\ pc = "save_check"
    /\ work # << >>
    /\ LET convo == Head(work)
       IN  IF parse_date_raises(convo.created)
           THEN /\ pc' = "aborted"
                /\ ev' = Ev("date_error", convo.id, NoPath)
                /\ UNCHANGED <<filepath, skipped, work, visited>>
           ELSE IF FilePath(out_dir, convo) \in DOMAIN files
           THEN /\ skipped' = skipped + 1
                /\ work' = Tail(work)
                /\ visited' = visited \cup {[path |-> FilePath(out_dir, convo),
                                               id |-> convo.id]}
                /\ pc' = "save_check"
                /\ ev' = Ev("skip", convo.id, FilePath(out_dir, convo))
                /\ UNCHANGED filepath
           ELSE /\ filepath' = FilePath(out_dir, convo)
                /\ visited' = visited \cup {[path |-> filepath', id |-> convo.id]}
                /\ pc' = "save_fetch"
                /\ ev' = Ev("new", convo.id, filepath')
                /\ UNCHANGED <<skipped, work>>
    /\ UNCHANGED <<files, run, envVars, fnVars, mainVars, totalVars, ret, out_dir, category,
                   origin, saved, errors, conv_data, md, logVars>>

\* line 231: the detail fetch of Head(work); fetch_json raises or returns
SaveFetch ==
    /\ pc = "save_fetch"
    /\ fetched' = [fetched EXCEPT ![Head(work).id] = @ + 1]
    /\ \/ /\ \E d \in ConvData(Head(work).id) : conv_data' = d
          /\ pc' = "save_compose"
          /\ ev' = Ev("fetched", Head(work).id, filepath)
          /\ UNCHANGED <<callVars, filepath, md>>
       \/ ItemError("fetch_error")
    /\ UNCHANGED <<files, run, envVars, fnVars, mainVars, totalVars, nList, wrote>>

\* line 232: to_markdown composes the whole text, or raises
SaveCompose ==
    /\ pc = "save_compose"
    /\ IF conv_data.ok
       THEN /\ md' = to_markdown(conv_data, Head(work).title, Head(work).created,
                                 Get(Head(work), "archived", FALSE))
            /\ pc' = "save_write"
            /\ ev' = Ev("composed", Head(work).id, filepath)
            /\ UNCHANGED <<callVars, filepath, conv_data>>
       ELSE ItemError("convert_error")
    /\ UNCHANGED <<files, run, envVars, fnVars, mainVars, totalVars, logVars>>

\* line 233, first half: write_text opens the path for writing, which
\* creates the file empty (and would truncate one that exists), or raises
SaveWrite ==
    /\ pc = "save_write"
    /\ wrote' = TRUE
    /\ \/ /\ files' = [p \in DOMAIN files \cup {filepath} |->
                          IF p = filepath THEN Opened ELSE files[p]]
          /\ pc' = "save_flush"
          /\ ev' = Ev("opened", Head(work).id, filepath)
          /\ UNCHANGED <<callVars, itemVars>>
       \/ /\ ItemError("open_error")
          /\ UNCHANGED files
    /\ UNCHANGED <<run, envVars, fnVars, mainVars, totalVars, nList, fetched>>

\* line 233, second half, and line 234: the text is written and the file
\* closed, or the write raises and leaves the file as it is
SaveFlush ==
    /\ pc = "save_flush"
    /\ \/ /\ files' = [files EXCEPT ![filepath] = Written(md)]
          /\ saved' = saved + 1
          /\ work' = Tail(work)
          /\ pc' = "save_check"
          /\ ResetItem
          /\ ev' = Ev("saved", Head(work).id, filepath)
          /\ UNCHANGED <<ret, out_dir, category, origin, skipped, errors, visited>>
       \/ /\ ItemError("write_error")
          /\ UNCHANGED files
    /\ UNCHANGED <<run, envVars, fnVars, mainVars, totalVars, logVars>>

\* ----------------------------------------------------------------- process
Restart ==
    /\ token' = "none"
    /\ DropListings
    /\ regular_convos' = << >> /\ gpt_convos' = << >>
    /\ gpt_names' = << >> /\ gpt_todo' = {} /\ projects' = << >>
    /\ total_saved' = 0 /\ total_skipped' = 0 /\ total_errors' = 0
    /\ ResetCall
    /\ ResetItem
    /\ nList' = 0 /\ wrote' = FALSE
    /\ fetched' = [i \in Ids |-> 0]

\* the process is terminated, wherever it is; only the files remain
Kill ==
    /\ Running
    /\ pc' = "killed"
    /\ Restart
    /\ ev' = Ev("killed", "", NoPath)
    /\ UNCHANGED <<files, run, envVars, fnVars>>

\* main is run again on the same output directory
NextRun ==
    /\ ~Running
    /\ run < MaxRuns
    /\ run' = run + 1
    /\ pc' = "get_token"
    /\ Restart
    /\ ev' = Ev("start", "", NoPath)
    /\ UNCHANGED <<files, envVars, fnVars>>

\* the steps of save_conversations
SaveStep ==
    \/ SaveReturn
    \/ SaveCheck
    \/ SaveFetch
    \/ SaveCompose
    \/ SaveWrite
    \/ SaveFlush

\* One run of main() from an empty output directory, every source answering
\* with any listing within the bounds.
Next ==
    \/ \E tok \in {"null", "tok"} : GetToken(tok)
    \/ \E items \in Listings(MaxList) : ListPrimary(items)
    \/ ListError
    \/ \E items \in Listings(MaxOther) : Fallback(items)
    \/ \E items \in Listings(MaxOther) : ListArchived(items)
    \/ Partition
    \/ ExportRegular
    \/ GptNames
    \/ GptLoop
    \/ \E items \in FolderCaches(MaxFolders) : Projects(items)
    \/ \E answer \in LookupAnswers, items \in ProjectListings(MaxOther) :
           ProjNext(answer, items)
    \/ ProjListError
    \/ Finish
    \/ SaveStep
    \/ Kill

Spec == Init /\ [][Next]_vars

\* The aggregation alone (main, lines 323-351), with longer listings: the run
\* stops where the export would start.
NextAgg ==
    \/ \E tok \in {"null", "tok"} : GetToken(tok)
    \/ \E items \in Listings(MaxAgg) : ListPrimary(items)
    \/ ListError
    \/ \E items \in Listings(MaxAgg) : Fallback(items)
    \/ \E items \in Listings(MaxAgg) : ListArchived(items)
    \/ Partition

SpecAgg == Init /\ [][NextAgg]_vars

\* Several runs of main() on the same output directory, for an account that
\* holds regular conversations only and no project folder.
RegularListings(n) == SeqsUpTo({i \in ApiItems : i.gizmo_id = None}, n)

NextRuns ==
    \/ \E tok \in {"null", "tok"} : GetToken(tok)
    \/ \E items \in RegularListings(MaxList) : ListPrimary(items)
    \/ ListError
    \/ \E items \in RegularListings(MaxOther) : Fallback(items)
    \/ \E items \in RegularListings(MaxOther) : ListArchived(items)
    \/ Partition
    \/ ExportRegular
    \/ GptNames
    \/ Projects(<< >>)
    \/ Finish
    \/ SaveStep
    \/ Kill
    \/ NextRun

SpecRuns == Init /\ [][NextRuns]_vars

\* One run of main() that is not terminated from outside, for an account
\* with a regular conversation, one of a custom GPT and one of a project,
\* every source answering with a listing of at most MaxOther items.
OriginListings(n) == SeqsUpTo({i \in ApiItems : i.id \in {"a", "d", "e"}}, n)

NextOrigins ==
    \/ \E tok \in {"null", "tok"} : GetToken(tok)
    \/ \E items \in OriginListings(MaxOther) : ListPrimary(items)
    \/ ListError
    \/ \E items \in OriginListings(MaxOther) : Fallback(items)
    \/ \E items \in OriginListings(MaxOther) : ListArchived(items)
    \/ Partition
    \/ ExportRegular
    \/ GptNames
    \/ GptLoop
    \/ \E items \in FolderCaches(MaxFolders) : Projects(items)
    \/ \E answer \in LookupAnswers, items \in ProjectListings(MaxOther) :
           ProjNext(answer, items)
    \/ ProjListError
    \/ Finish
    \/ SaveStep

SpecOrigins == Init /\ [][NextOrigins]_vars

\* --------------------------------------------------------- extract_messages
\* lines 245-250: no current_node, no messages; else the walk starts there
ExtractStart ==
    /\ pc = "extract_messages"
    /\ IF current_node = NoNode
       THEN /\ messages' = << >>
            /\ pc' = "extract_done"
            /\ UNCHANGED <<node_id, path>>
       ELSE /\ path' = << >>
            /\ node_id' = current_node
            /\ pc' = "extract_loop"
            /\ UNCHANGED messages
    /\ UNCHANGED <<mainState, docVars, renderVars, pageVars, mapping, current_node, seen>>

\* the longest path a walk that ends can collect
MaxWalk == MaxNodes

\* lines 251-256: one turn of the loop; a message that has content is
\* collected, the parent is next (a walk around a cycle is followed until
\* path is longer than any walk that ends)
ExtractStep ==
    /\ pc = "extract_loop"
    /\ node_id # NoNode
    /\ Len(path) <= MaxWalk
    /\ LET node == IF node_id \in DOMAIN mapping THEN mapping[node_id] ELSE EmptyNode
           got  == node.message
       IN  /\ path' = IF got # NoMsg /\ got.content # "empty" THEN Append(path, got)
                      ELSE path
           /\ node_id' = node.parent
    /\ seen' = seen \cup {node_id}
    /\ UNCHANGED <<mainState, docVars, renderVars, pageVars, pc, mapping, current_node, messages>>

\* a plausible slip: the path is returned as collected, leaf first
ExtractReturn_NoReverse ==
    /\ pc = "extract_loop"
    /\ node_id = NoNode
    /\ messages' = path
    /\ pc' = "extract_done"
    /\ UNCHANGED <<mainState, docVars, renderVars, pageVars, mapping, current_node, node_id, path, seen>>

\* line 257: the loop has ended, the path is returned root first
ExtractReturn ==
    /\ pc = "extract_loop"
    /\ node_id = NoNode
    /\ messages' = Reverse(path)
    /\ pc' = "extract_done"
    /\ UNCHANGED <<mainState, docVars, renderVars, pageVars, mapping, current_node, node_id, path, seen>>

\* extract_messages on any conv_data of up to MaxNodes nodes: any subset of
\* the node ids present, each node of any shape
InitExtract ==
    /\ MainIdle /\ RenderIdle /\ PagesIdle /\ DocIdle
    /\ pc = "extract_messages"
    /\ \E present \in SUBSET Nodes(MaxNodes) :
           \E g \in [present -> NodeShapes(MaxNodes)] : mapping = MappingOf(g)
    /\ current_node \in Nodes(MaxNodes) \cup {NoNode}
    /\ node_id = NoNode /\ path = << >> /\ seen = {} /\ messages = << >>

NextExtract ==
    \/ ExtractStart
    \/ ExtractStep
    \/ ExtractReturn

SpecExtract == InitExtract /\ [][NextExtract]_vars

\* ----------------------------------------------------------- render_message
\* the call render_message(msg) and its return
Render ==
    /\ pc = "render_message"
    /\ rendered' = render_message(msg)
    /\ pc' = "render_done"
    /\ UNCHANGED <<mainState, docVars, extractVars, pageVars, msg>>

\* render_message on any message of up to MaxParts parts
InitRender ==
    /\ MainIdle /\ ExtractIdle /\ PagesIdle /\ DocIdle
    /\ pc = "render_message"
    /\ msg \in Messages(MaxParts)
    /\ rendered = None

NextRender == Render

SpecRender == InitRender /\ [][NextRender]_vars

\* -------------------------------------------------------------- pagination
\* data.get("total") when the answer holds no total
NoTotal == -1

PageItemA == [id |-> "a", title |-> <<"x">>, create_time |-> NumTime(0),
              gizmo_id |-> None]
PageItemB == [id |-> "b", title |-> <<"x", "?">>, create_time |-> IsoTime(0),
              gizmo_id |-> None]

\* the pages an endpoint asked for `limit` items can answer with: none, one or
\* two items, or a full page
Pages(limit) ==
    { << >>, <<PageItemA>>, <<PageItemB, PageItemA>>,
      [i \in 1..limit |-> IF i % 2 = 1 THEN PageItemA ELSE PageItemB] }

\* the totals an answer can report next to a page
Totals(limit) == {NoTotal, 0, 1, 2, limit, limit + 1, 2 * limit}

\* lines 106-107 and 186-187
PagesStart(fn) ==
    /\ pc = fn
    /\ page_convos' = << >>
    /\ offset' = 0
    /\ pc' = IF fn = "api_list" THEN "api_request" ELSE "folder_request"
    /\ UNCHANGED <<mainState, docVars, extractVars, renderVars, total, page, requests>>

\* a plausible slip: a page shorter than the limit ends the listing
ApiPage_ShortStops(items, reported) ==
    /\ pc = "api_request"
    /\ Len(requests) < MaxPages
    /\ requests' = Append(requests, offset)
    /\ page' = items
    /\ page_convos' = page_convos \o [i \in DOMAIN items |-> Convo(items[i])]
    /\ total' = IF reported = NoTotal THEN 0 ELSE reported
    /\ offset' = offset + Len(items)
    /\ pc' = IF Len(items) < ApiLimit \/ offset' >= total' THEN "api_done"
             ELSE "api_request"
    /\ UNCHANGED <<mainState, docVars, extractVars, renderVars>>

\* get_all_conversations_from_api, lines 110-126: one turn of the loop; the
\* request is made at the current offset, every item is appended, a missing
\* total counts as 0, and the loop ends on an empty page or when the offset
\* has reached the total
ApiPage(items, reported) ==
    /\ pc = "api_request"
    /\ Len(requests) < MaxPages
    /\ requests' = Append(requests, offset)
    /\ page' = items
    /\ page_convos' = page_convos \o [i \in DOMAIN items |-> Convo(items[i])]
    /\ total' = IF reported = NoTotal THEN 0 ELSE reported
    /\ offset' = offset + Len(items)
    /\ pc' = IF items = << >> \/ offset' >= total' THEN "api_done"
             ELSE "api_request"
    /\ UNCHANGED <<mainState, docVars, extractVars, renderVars>>

\* a plausible slip: the test of the page length is left out
FolderPage_NoShortStop(items, reported) ==
    /\ pc = "folder_request"
    /\ Len(requests) < MaxPages
    /\ requests' = Append(requests, offset)
    /\ page' = items
    /\ page_convos' = page_convos \o [i \in DOMAIN items |-> ProjectConvo(items[i])]
    /\ total' = reported
    /\ offset' = offset + Len(items)
    /\ pc' = IF items = << >> THEN "folder_done"
             ELSE IF reported # NoTotal /\ offset' >= reported THEN "folder_done"
             ELSE "folder_request"
    /\ UNCHANGED <<mainState, docVars, extractVars, renderVars>>

\* get_project_conversations, lines 188-205: one turn of the loop; it ends
\* on a page shorter than 50, and when a total is reported and the offset
\* has reached it
FolderPage(items, reported) ==
    /\ pc = "folder_request"
    /\ Len(requests) < MaxPages
    /\ requests' = Append(requests, offset)
    /\ page' = items
    /\ page_convos' = page_convos \o [i \in DOMAIN items |-> ProjectConvo(items[i])]
    /\ total' = reported
    /\ offset' = offset + Len(items)
    /\ pc' = IF items = << >> \/ Len(items) < FolderLimit THEN "folder_done"
             ELSE IF reported # NoTotal /\ offset' >= reported THEN "folder_done"
             ELSE "folder_request"
    /\ UNCHANGED <<mainState, docVars, extractVars, renderVars>>

\* fetch_json raises in a page request (lines 114, 190): the listing is lost
PageError ==
    /\ pc \in {"api_request", "folder_request"}
    /\ Len(requests) < MaxPages
    /\ requests' = Append(requests, offset)
    /\ pc' = "aborted"
    /\ UNCHANGED <<mainState, docVars, extractVars, renderVars, offset, total, page, page_convos>>

\* one listing by either paginating function, the endpoint answering every
\* request with any page and any total
InitPages ==
    /\ MainIdle /\ ExtractIdle /\ RenderIdle /\ PagesIdle /\ DocIdle
    /\ pc \in {"api_list", "folder_list"}

NextPages ==
    \/ \E fn \in {"api_list", "folder_list"} : PagesStart(fn)
    \/ \E items \in Pages(ApiLimit), reported \in Totals(ApiLimit) :
           ApiPage(items, reported)
    \/ \E items \in Pages(FolderLimit), reported \in Totals(FolderLimit) :
           FolderPage(items, reported)
    \/ PageError

SpecPages == InitPages /\ [][NextPages]_vars

\* ------------------------------------------------------------ file names
\* the characters the short titles are made of
TitleChars == {"a", " ", "\t", "?", "/"}
Rep(ch, n) == [i \in 1..n |-> ch]
\* titles around the length the slug is cut to
LongTitles ==
    { Rep("a", SlugMax - 1), Rep("a", SlugMax), Rep("a", SlugMax + 1),
      <<" ">> \o Rep("a", SlugMax) \o <<"?">>,
      Rep("a", SlugMax - 1) \o <<" ", "b">>,
      Rep("?", SlugMax + 1) }
Titles(n) == SeqsUpTo(TitleChars, n) \cup LongTitles
\* the times a conversation was created at
Times == {NumTime(0), IsoTime(1), IsoLate(0)}

\* save_conversations (lines 211-222) is called in an empty output directory
\* with one conversation, of any title, on a host in any time zone
InitNames ==
    /\ files = << >> /\ run = 1
    /\ utcoffset \in UtcOffsets
    /\ FnIdle
    /\ pc = "save_check"
    /\ ev = Ev("regular", "", NoPath)
    /\ token = "ok"
    /\ convos = << >> /\ primary = << >> /\ cache = << >> /\ archived = << >>
    /\ regular_convos = << >> /\ gpt_convos = << >>
    /\ gpt_names = << >> /\ gpt_todo = {} /\ projects = << >>
    /\ total_saved = 0 /\ total_skipped = 0 /\ total_errors = 0
    /\ ret = "gpt_names" /\ out_dir = ExportsDir
    /\ category = "regular" /\ origin = None
    /\ saved = 0 /\ skipped = 0 /\ errors = 0
    /\ filepath = NoPath /\ conv_data = NoData /\ md = NoDoc
    /\ nList = 2 /\ wrote = FALSE
    /\ fetched = [i \in Ids |-> 0]
    /\ visited = {}
    /\ \E t \in Titles(MaxTitle), created \in Times, is_archived \in BOOLEAN :
           LET convo == [id |-> "a", title |-> t, created |-> created, gizmo_id |-> None]
           IN  work = << IF is_archived
                         THEN [k \in DOMAIN convo \cup {"archived"} |->
                                   IF k = "archived" THEN TRUE ELSE convo[k]]
                         ELSE convo >>

NextNames == SaveCheck

SpecNames == InitNames /\ [][NextNames]_vars

\* ------------------------------------------------------------- to_markdown
\* the hour of the day the instant falls on in local time
LocalHour(created, off) == (created.day * 24 + created.hour + off) % 24

\* parse_date(created).strftime("%Y-%m-%d %H:%M") on a host at UTC offset off
date_str(created, off) ==
    date_prefix(LocalDay(created, off)) \o <<" ">>
        \o <<Digit(LocalHour(created, off) \div 10), Digit(LocalHour(created, off) % 10)>>
        \o <<":", "0", "0">>

ArchivedMark == <<" ", "|", " ", "a", "r", "c", "h", "i", "v", "e", "d">>
Rule == <<"-", "-", "-">>

\* line 291: the heading, the date line with the archived mark, an empty line
head_lines(title, created, is_archived, off) ==
    << <<"#", " ">> \o title,
       <<"*">> \o date_str(created, off) \o <<"*">>
           \o (IF is_archived THEN ArchivedMark ELSE << >>),
       << >> >>

\* lines 292-298: what the loop over the messages appends to lines
RECURSIVE message_lines(_)
message_lines(msgs) ==
    IF msgs = << >> THEN << >>
    ELSE (IF render_message(Head(msgs)) # None
          THEN <<render_message(Head(msgs)), << >>, Rule, << >>>>
          ELSE << >>)
         \o message_lines(Tail(msgs))

\* "\n".join(q)
RECURSIVE join_lines(_)
join_lines(q) ==
    IF q = << >> THEN << >>
    ELSE IF Len(q) = 1 THEN q[1]
    ELSE q[1] \o <<"\n">> \o join_lines(Tail(q))

\* the messages extract_messages returns to to_markdown: one of the user, one
\* of the assistant, and three that render to nothing
DocMessages ==
    { [role |-> "user", parts |-> <<TextPart(<<"a">>)>>],
      [role |-> "assistant", parts |-> <<DictPart("image_asset_pointer", << >>, << >>)>>],
      [role |-> "assistant", parts |-> <<TextPart(<<" ", "\n">>)>>],
      [role |-> "system", parts |-> <<TextPart(<<"a">>)>>],
      [role |-> "tool", parts |-> << >>] }

\* to_markdown, lines 289-299, on the host's time zone
Compose ==
    /\ pc = "to_markdown"
    /\ lines' = head_lines(doc_args.title, doc_args.created, doc_args.archived, utcoffset)
                    \o message_lines(doc_args.messages)
    /\ document' = join_lines(lines')
    /\ pc' = "composed"
    /\ UNCHANGED <<mainState, extractVars, renderVars, pageVars, doc_args>>

\* to_markdown on any conversation of up to MaxDocMsgs messages, on a host in
\* any time zone
InitDoc ==
    /\ MainFresh /\ ExtractIdle /\ RenderIdle /\ PagesIdle
    /\ utcoffset \in UtcOffsets
    /\ pc = "to_markdown"
    /\ doc_args \in [messages : SeqsUpTo(DocMessages, MaxDocMsgs),
                      title : {<<"x">>, Untitled},
                      created : Times,
                      archived : BOOLEAN]
    /\ lines = << >> /\ document = << >>

NextDoc == Compose

SpecDoc == InitDoc /\ [][NextDoc]_vars

\* ------------------------------------------------------------------ claims
\* the head of the worklist is a convo whose path save_conversations computes
AtConvo ==
    /\ pc = "save_check"
    /\ work # << >>
    /\ ~parse_date_raises(Head(work).created)

HeadPath == FilePath(out_dir, Head(work))

\* C1: a conversation whose computed path exists when save_conversations
\* reaches it is skipped: skipped grows by one, no detail is fetched, nothing
\* is written and no file changes; and a detail fetch, a composition or a
\* write is only ever under way for a path that did not exist, so a run that
\* finds every path present fetches and writes nothing.
C1_IdempotentSink ==
    [][/\ (AtConvo /\ HeadPath \in DOMAIN files /\ pc' # "killed")
           => /\ skipped' = skipped + 1
              /\ fetched' = fetched
              /\ wrote' = wrote
              /\ files' = files
              /\ work' = Tail(work)
              /\ pc' = "save_check"
       /\ (pc' = "save_fetch" /\ pc # "save_fetch")
           => filepath' \notin DOMAIN files]_vars

\* a second run that lists what the first run saved: both conversations are
\* skipped, nothing is fetched or written
C1_Witness ==
    /\ run = 2
    /\ pc = "done"
    /\ total_skipped = 2
    /\ \A i \in Ids : fetched[i] = 0
    /\ ~wrote
    /\ \A p \in DOMAIN files : files[p].complete

\* C2: a failure while fetching a conversation's detail or converting it
\* (its date included) is caught: errors grows by one, no file is left for
\* it, and the loop goes on with the next conversation.
C2_FailureIsContained ==
    [][ev'.kind \in {"fetch_error", "convert_error", "date_error"}
        => /\ errors' = errors + 1
           /\ files' = files
           /\ work # << >> /\ work' = Tail(work)
           /\ pc' = "save_check"]_vars

\* C3: no conversation id occurs twice in the merged aggregate.
C3_Deduplicated ==
    pc = "merged" =>
        \A i, j \in DOMAIN convos : i # j => convos[i].id # convos[j].id

\* an archived-listing item as the merge adds it
AsArchived(c) ==
    [id |-> c.id, title |-> c.title, created |-> c.created,
     gizmo_id |-> c.gizmo_id, archived |-> TRUE]

\* the archived-listing items whose id is not among those of cs, marked
\* archived, in listing order
ArchivedOnly(arch, cs) ==
    LET new == SelectSeq(arch, LAMBDA c : c.id \notin IdsOf(cs))
    IN  [i \in DOMAIN new |-> AsArchived(new[i])]

\* C4: the aggregate starts with the primary listing as it was (order and
\* non-archived status kept); every entry marked archived comes from the
\* archived listing and has an id the primary listing does not hold; and
\* after a non-empty primary listing the rest is exactly the archived items
\* with a new id, marked archived, in archived-listing order.
C4_MergePolicy ==
    pc = "merged" =>
        /\ Len(convos) >= Len(primary)
        /\ SubSeq(convos, 1, Len(primary)) = primary
        /\ \A i \in DOMAIN convos :
               IF i <= Len(primary) THEN "archived" \notin DOMAIN convos[i]
               ELSE "archived" \in DOMAIN convos[i] =>
                       /\ convos[i].archived
                       /\ convos[i].id \notin IdsOf(primary)
                       /\ \E k \in DOMAIN archived : convos[i] = AsArchived(archived[k])
        /\ primary # << >> => convos = primary \o ArchivedOnly(archived, primary)

\* primary [a, b] and archived [b, c] give [a, b, c], c alone archived
C4_Witness ==
    /\ pc = "merged"
    /\ [i \in DOMAIN primary |-> primary[i].id] = <<"a", "b">>
    /\ [i \in DOMAIN archived |-> archived[i].id] = <<"b", "c">>
    /\ [i \in DOMAIN convos |-> convos[i].id] = <<"a", "b", "c">>
    /\ "archived" \notin DOMAIN convos[2]
    /\ convos[3].archived

\* C5, as stated: with an empty primary listing the aggregate is the cached
\* listing exactly, nothing of the archived listing merged in.
C5_FallbackExact ==
    (pc = "merged" /\ primary = << >>) => convos = cache

\* C5, amended: with an empty primary listing the aggregate is the cached
\* listing, followed by the archived items whose id the cache does not hold,
\* marked archived, in archived-listing order.
C5_FallbackThenArchived ==
    (pc = "merged" /\ primary = << >>) =>
        convos = cache \o ArchivedOnly(archived, cache)

\* the fallback was taken and the archived listing added a conversation
C5_Witness ==
    /\ pc = "merged"
    /\ primary = << >>
    /\ cache # << >>
    /\ Len(convos) > Len(cache)
    /\ convos[Len(convos)].archived

\* the category a path lies in: the directory under exports/, if any
CategoryOf(p) == IF Len(p.dir) = 1 THEN "regular" ELSE p.dir[2]

\* C6: a conversation whose origin id starts with g-p- is never exported as
\* an assistant-backed one, and no conversation has its document under two
\* of the categories exports/, exports/gpts/, exports/projects/.
C6_ThreeCategories ==
    /\ category = "gpts" => ~startswith(origin, ProjectPrefix)
    /\ \A p, q \in DOMAIN files :
           (files[p].complete /\ files[q].complete
               /\ files[p].doc.thread = files[q].doc.thread)
           => CategoryOf(p) = CategoryOf(q)

\* C7, as stated for two conversations with one path: the one that comes
\* first is written and the later one is skipped, so no export is started
\* for a path an earlier, different conversation of the call computed.
C7_FirstIsWritten ==
    [][(pc = "save_check" /\ pc' = "save_fetch")
        => \A v \in visited : v.path = filepath' => v.id = Head(work).id]_vars

\* C7, amended: files are only added; a complete file never changes; a file
\* appears only where write_text opens a path that did not exist, and changes
\* only when that same write_text puts its text in; a conversation reached
\* while its path exists is skipped and leaves every file as it is; so of
\* the conversations with one path, the file holds the document of the one
\* whose write created it (the first whose fetch and conversion succeed),
\* and the others reached after it are skipped.
C7_WriteOnce ==
    [][/\ DOMAIN files \subseteq DOMAIN files'
       /\ \A p \in DOMAIN files :
              files'[p] # files[p]
              => /\ ~files[p].complete
                 /\ pc = "save_flush" /\ p = filepath
                 /\ files'[p] = Written(md)
                 /\ md.thread = Head(work).id
       /\ \A p \in DOMAIN files' \ DOMAIN files :
              pc = "save_write" /\ p = filepath /\ files'[p] = Opened
       /\ (AtConvo /\ HeadPath \in DOMAIN files /\ pc' # "killed")
              => ev' = Ev("skip", Head(work).id, HeadPath) /\ files' = files]_vars

\* b is skipped because a, which has the same path, was written before it
C7_Witness ==
    /\ ev.kind = "skip"
    /\ ev.id = "b"
    /\ ev.path \in DOMAIN files
    /\ files[ev.path].complete
    /\ files[ev.path].doc.thread = "a"
    /\ \E v \in visited : v.id = "a" /\ v.path = ev.path

ExportErrors == {"fetch_error", "convert_error", "open_error", "write_error"}

\* C8: in a run no conversation's detail is fetched more than once, and a
\* conversation whose export has just failed has no file at its path (so
\* that the next run that lists it fetches it again).
C8_RetryAcrossRuns ==
    /\ \A i \in Ids : fetched[i] <= 1
    /\ ev.kind \in ExportErrors => ev.path \notin DOMAIN files

\* C9: when the run is terminated every file holds a complete document, and
\* a file that is skipped is never an incomplete one.
C9_Resumable ==
    /\ pc = "killed" => \A p \in DOMAIN files : files[p].complete
    /\ ev.kind = "skip" => files[ev.path].complete

\* C10: a run that gets no access token has aborted at once: it has made no
\* listing request and no detail fetch, and has written no file.
C10_NoTokenAborts ==
    token = "null" =>
        /\ pc = "aborted"
        /\ ev.kind = "no_token"
        /\ nList = 0
        /\ \A i \in Ids : fetched[i] = 0
        /\ ~wrote

\* the second run finds no token; the files of the first run are there
C10_Witness ==
    /\ token = "null"
    /\ pc = "aborted"
    /\ run = 2
    /\ files # << >>

\* the parent the mapping gives a node id (none for an id it does not hold)
ParentOf(n) == IF n \in DOMAIN mapping THEN mapping[n].parent ELSE NoNode

\* the parent chain of node id n, root first, followed for at most k nodes
RECURSIVE ChainFrom(_, _)
ChainFrom(n, k) ==
    IF n = NoNode \/ k = 0 THEN << >>
    ELSE Append(ChainFrom(ParentOf(n), k - 1), n)

\* the chain of the current leaf
LeafChain == ChainFrom(current_node, MaxNodes + 1)

\* the message of every node of the chain q that satisfies keep, in order
ChainMessages(q, keep(_)) ==
    LET held == SelectSeq(q, LAMBDA n : n \in DOMAIN mapping /\ keep(mapping[n].message))
    IN  [i \in DOMAIN held |-> mapping[held[i]].message]

\* C11, as stated: extract_messages returns the messages of the nodes on the
\* parent chain of the current leaf, root first, leaving out only the nodes
\* that have no message.
C11_ChainMessages ==
    pc = "extract_done" =>
        messages = ChainMessages(LeafChain, LAMBDA m : m # NoMsg)

\* C11, amended: extract_messages returns the messages of the nodes on the
\* parent chain of the current leaf, root first and leaf last, leaving out
\* the nodes that have no message and those whose message has no content;
\* no node off the chain contributes; without a current leaf, with a leaf
\* the graph does not hold or with an empty graph the result is empty.
C11_ChainMessagesWithContent ==
    pc = "extract_done" =>
        /\ messages = ChainMessages(LeafChain,
                                    LAMBDA m : m # NoMsg /\ m.content # "empty")
        /\ \A i \in DOMAIN messages :
               \E j \in DOMAIN LeafChain : messages[i].of = LeafChain[j]
        /\ (current_node \notin DOMAIN mapping) => messages = << >>

\* leaf n1 -> n2 -> root n3: n2 has no message, and the result is the
\* message of n3 and then that of n1
C11_Witness ==
    /\ pc = "extract_done"
    /\ current_node = "n1"
    /\ DOMAIN mapping = {"n1", "n2", "n3"}
    /\ mapping["n1"].parent = "n2"
    /\ mapping["n2"].parent = "n3"
    /\ mapping["n2"].message = NoMsg
    /\ messages = <<Msg("n3", "parts"), Msg("n1", "parts")>>

\* C13: the walk of extract_messages ends for every mapping and every
\* current leaf: it never comes to a node it has visited before.
C13_WalkEnds ==
    pc = "extract_loop" => node_id \notin seen

\* whether a part gives text: a string that is not all whitespace, an image
\* pointer or a quoted source
Converts(part) ==
    \/ part.type = "str" /\ \E i \in DOMAIN part.text : part.text[i] \notin Whitespace
    \/ part.type = "dict"
          /\ part.content_type \in {"image_asset_pointer", "tether_quote"}

\* the text a converting part gives
Converted(part) ==
    IF part.type = "str" THEN strip(part.text)
    ELSE IF part.content_type = "image_asset_pointer" THEN ImageText
    ELSE SourceText(part.title, part.url)

\* every converting part of q in order, each after a blank line
RECURSIVE BlockBody(_)
BlockBody(q) ==
    IF q = << >> THEN << >>
    ELSE BlockBody(SubSeq(q, 1, Len(q) - 1))
            \o (IF Converts(q[Len(q)]) THEN Blank \o Converted(q[Len(q)]) ELSE << >>)

\* C12: render_message gives no block for the roles system and tool whatever
\* the parts are, and none when no part converts; otherwise it gives one
\* block, labelled You exactly when the role is user and ChatGPT otherwise,
\* that holds the converted parts in their order.
C12_RenderingFilter ==
    pc = "render_done" =>
        IF msg.role \in {"system", "tool"} THEN rendered = None
        ELSE IF \A i \in DOMAIN msg.parts : ~Converts(msg.parts[i])
        THEN rendered = None
        ELSE /\ rendered # None
             /\ startswith(rendered, YouLabel) <=> msg.role = "user"
             /\ rendered = (IF msg.role = "user" THEN YouLabel ELSE ChatGPTLabel)
                               \o BlockBody(msg.parts)

\* a message of an unknown role with a padded text and an image
C12_Witness ==
    /\ pc = "render_done"
    /\ msg.role = "unknown"
    /\ msg.parts = <<TextPart(<<" ", "b", " ">>), DictPart("image_asset_pointer", << >>, << >>)>>
    /\ rendered = ChatGPTLabel \o Blank \o <<"b">> \o Blank \o ImageText

\* a page has just been received by get_all_conversations_from_api
ApiPageStep == pc = "api_request" /\ pc' \in {"api_request", "api_done"}

\* a page has just been received by get_project_conversations
FolderPageStep == pc = "folder_request" /\ pc' \in {"folder_request", "folder_done"}

\* the ids of the convos of a listing, in order
IdSeq(cs) == [i \in DOMAIN cs |-> cs[i].id]

\* C14, as stated: in get_all_conversations_from_api no further page is
\* requested after a page that is shorter than the page size, after an empty
\* page, or once the offset has reached the reported total.
C14_StopsOnShortPage ==
    [][ApiPageStep
        => ((Len(page') < ApiLimit \/ offset' >= total') => pc' = "api_done")]_vars

\* C14, amended: every request is made at the offset that equals the number
\* of items received so far; the received pages are appended in order; the
\* listing ends exactly when the page just received is empty or the offset
\* has reached the reported total (0 when none is reported), so a short page
\* that is not empty and leaves the offset below the total is followed by
\* another request.
C14_Pagination ==
    [][ApiPageStep
        => /\ requests' = Append(requests, Len(page_convos))
           /\ IdSeq(page_convos') = IdSeq(page_convos) \o IdSeq(page')
           /\ offset' = Len(page_convos')
           /\ pc' = "api_done" <=> (page' = << >> \/ offset' >= total')]_vars

\* a page of one item with a total of two was followed by a second request,
\* at offset 1, whose page completed the listing
C14_Witness ==
    /\ pc = "api_done"
    /\ requests = <<0, 1>>
    /\ total = 2
    /\ IdSeq(page_convos) = <<"a", "a">>
    /\ page = <<PageItemA>>

\* C15: get_project_conversations ends its listing after the first page
\* shorter than the page size, and once a total is reported and the offset
\* has reached it, whichever comes first and whether or not the two agree;
\* otherwise it requests the next page at the offset reached; every item of
\* every page received is returned, in order.
C15_FolderPagination ==
    [][FolderPageStep
        => /\ requests' = Append(requests, Len(page_convos))
           /\ IdSeq(page_convos') = IdSeq(page_convos) \o IdSeq(page')
           /\ offset' = Len(page_convos')
           /\ Len(page') < FolderLimit => pc' = "folder_done"
           /\ (total' # NoTotal /\ offset' >= total') => pc' = "folder_done"
           /\ (Len(page') = FolderLimit /\ (total' = NoTotal \/ offset' < total'))
                 => pc' = "folder_request"]_vars

\* a full page with no total reported was followed by a short page that
\* ends the listing although the total it reports is not reached
C15_Witness ==
    /\ pc = "folder_done"
    /\ requests = <<0, FolderLimit>>
    /\ Len(page) = 1
    /\ total = 2 * FolderLimit
    /\ Len(page_convos) = FolderLimit + 1

\* C16, as stated: every listing request of a run is made before the run's
\* first conversation-detail fetch.
C16_ListingsBeforeFetches ==
    [][nList' > nList => \A i \in Ids : fetched[i] = 0]_vars

\* C16, amended: the primary and the archived listing are both made before
\* the first detail fetch of the run; the only listing requests made after
\* it are those of the project folders, each made in the folder loop before
\* the conversations of that folder are handled and never while
\* save_conversations is at work.
C16_ListingsBeforeTheirFetches ==
    [][/\ nList' > nList
           => /\ pc \in {"list_primary", "list_archived", "proj_loop"}
              /\ pc # "proj_loop" => \A i \in Ids : fetched[i] = 0
       /\ fetched' # fetched
           => /\ pc = "save_fetch"
              /\ nList >= 2
              /\ category = "projects" => nList >= 3]_vars

\* the regular conversation a was fetched, and then a folder was listed
C16_Witness ==
    /\ fetched["a"] = 1
    /\ nList = 3
    /\ category = "projects"
    /\ ev.kind = "project"

\* C17: a display-name lookup that fails or gives no name aborts nothing and
\* leaves the origin id as the name: the names of the custom GPTs are the
\* looked-up name or else the id, every GPT's conversations are exported to
\* exports/gpts/<sanitized name>, and a folder's conversations are exported
\* to exports/projects/<sanitized name>, the name being the cached one if
\* there is one, else the looked-up one, else the folder id.
C17_NameLookup ==
    [][/\ (pc = "gpt_names" /\ gpt_convos # << >>)
           => /\ pc' = "gpt_loop"
              /\ \A g \in DOMAIN gpt_names' :
                     gpt_names'[g] = IF ev'.answer[g] = "named" THEN GizmoName ELSE g
       /\ (pc = "gpt_loop" /\ gpt_todo # {})
           => /\ pc' = "save_check"
              /\ origin' \in gpt_todo
              /\ out_dir' = <<"exports", "gpts", safe_filename(gpt_names[origin'])>>
              /\ work' = SelectSeq(gpt_convos, LAMBDA c : c.gizmo_id = origin')
              /\ work' # << >>
       /\ (pc = "proj_loop" /\ ev'.kind = "project")
           => LET proj == Head(projects)
                  name == IF proj.name # None THEN proj.name
                          ELSE IF ev'.answer = "named" THEN GizmoName
                          ELSE proj.id
              IN  /\ pc' = "save_check"
                  /\ origin' = proj.id
                  /\ out_dir' = <<"exports", "projects", safe_filename(name)>>]_vars

\* the lookup of a folder without a cached name failed: its conversation is
\* exported to exports/projects/g-p-1
C17_Witness ==
    /\ ev.kind = "saved"
    /\ category = "projects"
    /\ origin = PROJ1
    /\ out_dir = <<"exports", "projects", PROJ1>>
    /\ ev.path.dir = out_dir

\* the characters C19 names, and the space
NotInSlug == {"<", ">", ":", "\"", "/", "\\", "|", "?", "*", " "}

Digits == {"0", "1", "2", "3", "4", "5", "6", "7", "8", "9"}

\* YYYY-MM-DD
IsDate(d) ==
    /\ Len(d) = 10
    /\ \A i \in {1, 2, 3, 4, 6, 7, 9, 10} : d[i] \in Digits
    /\ d[5] = "-" /\ d[8] = "-"

\* C19: the name of the file a conversation is written to is
\* <YYYY-MM-DD>_<slug>[_archived].md, the date being that of the creation
\* time and the suffix _archived present exactly for an archived conversation;
\* the slug has none of the characters < > : " / \ | ? *, no space, at most 80
\* characters and at least one, and is 'untitled' when the title has nothing
\* but stripped characters.
C19_Naming ==
    pc = "save_fetch" =>
        LET convo   == Head(work)
            f       == filepath.file
            arch    == Get(convo, "archived", FALSE)
            ending  == (IF arch THEN ArchivedSuffix ELSE << >>) \o MdExt
            slug    == SubSeq(f, 12, Len(f) - Len(ending))
        IN  /\ filepath.dir = out_dir
            /\ Len(f) >= 12 + Len(ending)
            /\ IsDate(SubSeq(f, 1, 10))
            /\ SubSeq(f, 1, 10) = date_prefix(LocalDay(convo.created, utcoffset))
            /\ f[11] = "_"
            /\ SubSeq(f, Len(f) - Len(ending) + 1, Len(f)) = ending
            /\ \A i \in DOMAIN slug : slug[i] \notin NotInSlug
            /\ Len(slug) >= 1 /\ Len(slug) <= 80
            /\ (\A i \in DOMAIN convo.title :
                     convo.title[i] \in IllegalChars \cup Whitespace)
                   => slug = untitled
            /\ slug = safe_filename(convo.title)

\* an archived conversation whose title is longer than 80 characters got its
\* file name, with a slug of 80 characters
C19_Witness ==
    /\ pc = "save_fetch"
    /\ Len(Head(work).title) > 80
    /\ Get(Head(work), "archived", FALSE)
    /\ Len(filepath.file) = 10 + 1 + 80 + Len(ArchivedSuffix) + Len(MdExt)

\* the messages of q that render to something
Rendering(q) == SelectSeq(q, LAMBDA m : render_message(m) # None)

\* C18: the composed document is that of the title, creation time, archived
\* flag and messages on a host in any time zone; its lines are the three
\* head lines and then, for each message that renders to something, in
\* order, the rendered block, an empty line, one horizontal rule and an
\* empty line.
C18_DocumentDeterminism ==
    pc = "composed" =>
        /\ \A off \in UtcOffsets :
               document = join_lines(head_lines(doc_args.title, doc_args.created,
                                                doc_args.archived, off)
                                     \o message_lines(doc_args.messages))
        /\ Len(lines) = 3 + 4 * Len(Rendering(doc_args.messages))
        /\ \A k \in DOMAIN Rendering(doc_args.messages) :
               /\ lines[4 * k] = render_message(Rendering(doc_args.messages)[k])
               /\ lines[4 * k + 1] = << >>
               /\ lines[4 * k + 2] = Rule
               /\ lines[4 * k + 3] = << >>

\* save_conversations is at work
InSave == pc \in {"save_check", "save_fetch", "save_compose", "save_write", "save_flush"}

\* C20: a call of save_conversations that is not terminated from outside
\* returns; every step that takes an entry off the worklist raises exactly
\* one of saved, skipped and errors by one, so their sum is the number of
\* entries handled; an entry counted as skipped or as an error has left no
\* file of its own, so saved is the number of files the call created; on return
\* each counter is added to its run-wide total.
C20_CounterAccounting ==
    [][(InSave /\ ev'.kind # "killed")
           => /\ pc' # "aborted"
              /\ work' # work
                    => /\ work' = Tail(work)
                       /\ saved' + skipped' + errors' = saved + skipped + errors + 1
                       /\ saved' >= saved /\ skipped' >= skipped /\ errors' >= errors
              /\ work' = work
                    => (pc' \notin {"save_check", "save_fetch", "save_compose",
                                    "save_write", "save_flush"}
                        \/ <<saved', skipped', errors'>> = <<saved, skipped, errors>>)
              /\ skipped' > skipped => files' = files
              /\ errors' > errors => files' = files /\ filepath \notin DOMAIN files
              /\ (pc = "save_check" /\ work = << >>)
                    => /\ pc' = ret
                       /\ total_saved' = total_saved + saved
                       /\ total_skipped' = total_skipped + skipped
                       /\ total_errors' = total_errors + errors]_vars

\* C21: when convos is empty after the primary listing, the cache fallback
\* and the archived merge, the next step ends the run: the only listing
\* requests made are the primary and the archived one, no conversation was
\* fetched, nothing was written, the totals are untouched, and no step
\* follows, so the folder cache is never read.
C21_EmptyAggregateExit ==
    [][/\ (pc = "merged" /\ convos = << >>)
           => /\ pc' = "done"
              /\ nList' = 2
              /\ \A i \in Ids : fetched'[i] = 0
              /\ wrote' = FALSE
              /\ files' = files
              /\ projects' = << >>
              /\ <<total_saved', total_skipped', total_errors'>> = <<0, 0, 0>>
       /\ pc # "done"]_vars

\* the run ended because the primary listing, the cache and the archived
\* listing were all empty
C21_Witness ==
    /\ pc = "done"
    /\ ev.kind = "partition"
    /\ token = "tok"
    /\ nList = 2
    /\ files = << >>

====
